---- MODULE Spec2Model ----
(***************************************************************************)
(* A model of the StatsD ingest pipeline of src/exporter.go: the line      *)
(* parser (lineToEvents and its helpers), the name escaping, the listeners *)
(* feeding the event-batch channel, and Exporter.Listen / handleEvent      *)
(* driving the metric registry.                                            *)
(*                                                                         *)
(* Strings are sequences of bytes.  An ASCII byte is written as the        *)
(* one-character string of that character; the bytes outside ASCII that    *)
(* the model uses are "xC3" (the lead byte of a two-byte rune), "xA9" (a   *)
(* continuation byte) and "xFF" (a byte that is never valid UTF-8).        *)
(* Numbers (Go float64) are exact rationals <<n, d>> in lowest terms; the   *)
(* inputs are chosen so that the float64 computations of the code are      *)
(* exact on them (halves, small integers).                                 *)
(***************************************************************************)
EXTENDS Integers, Sequences, FiniteSets, TLC

(***************************************************************************)
(* Bounds of the model.                                                    *)
(***************************************************************************)
MaxSamples == 2

MaxPackets == 1

ChanCap == 2

MaxTime == 2

MaxNameLen == 4

MaxConns == 2

MaxReads == 3

(***************************************************************************)
(* Bytes, runes and strings.                                               *)
(***************************************************************************)
Digits == {"0", "1", "2", "5"}

Letters == {"a", "b", "c", "d", "g", "h", "k", "m", "s", "v", "z"}

NonAscii == {"xC3", "xA9", "xFF"}

IsValidNameRune(c) == c \in Letters \/ c \in Digits \/ c = "_"

\* utf8.DecodeRuneInString at the 1-based byte position i of s: the rune and
\* the number of bytes it takes. An ill-formed sequence decodes to RuneError
\* of width 1.
DecodeRune(s, i) ==
    IF s[i] \notin NonAscii THEN [r |-> s[i], w |-> 1]
    ELSE IF s[i] = "xC3" /\ i < Len(s) /\ s[i + 1] = "xA9"
         THEN [r |-> "U+00E9", w |-> 2]
         ELSE [r |-> "RuneError", w |-> 1]

\* utf8.RuneLen taking every rune for one byte.
RuneLenOne(r) == 1

\* utf8.RuneLen: the bytes the rune's encoding takes (RuneError is U+FFFD,
\* three bytes).
RuneLen(r) ==
    CASE r = "RuneError" -> 3
      [] r = "U+00E9" -> 2
      [] OTHER -> 1

RECURSIVE ValidFrom(_, _)
ValidFrom(s, i) ==
    IF i > Len(s) THEN TRUE
    ELSE LET d == DecodeRune(s, i)
         IN  d.r # "RuneError" /\ ValidFrom(s, i + d.w)

\* utf8.ValidString
ValidString(s) == ValidFrom(s, 1)

\* The first 1-based position >= i of s holding the byte c, 0 when none.
RECURSIVE IndexFrom(_, _, _)
IndexFrom(s, c, i) ==
    IF i > Len(s) THEN 0
    ELSE IF s[i] = c THEN i ELSE IndexFrom(s, c, i + 1)

Drop(s, n) == SubSeq(s, n + 1, Len(s))

Take(s, n) == SubSeq(s, 1, n)

\* strings.Split(s, sep) for a one-byte separator: never empty, Split("")
\* is the one empty string.
RECURSIVE Split(_, _)
Split(s, sep) ==
    LET i == IndexFrom(s, sep, 1)
    IN  IF i = 0 THEN << s >>
        ELSE << Take(s, i - 1) >> \o Split(Drop(s, i), sep)

\* strings.SplitN(s, sep, 2)
SplitN2(s, sep) ==
    LET i == IndexFrom(s, sep, 1)
    IN  IF i = 0 THEN << s >> ELSE << Take(s, i - 1), Drop(s, i) >>

\* strings.Contains(s, "|#")
ContainsPipeHash(s) ==
    \E i \in 1..(Len(s) - 1) : s[i] = "|" /\ s[i + 1] = "#"

RECURSIVE Join(_, _)
Join(parts, sep) ==
    IF Len(parts) = 0 THEN << >>
    ELSE IF Len(parts) = 1 THEN parts[1]
    ELSE parts[1] \o << sep >> \o Join(Tail(parts), sep)

(***************************************************************************)
(* Rational arithmetic standing for float64.                               *)
(***************************************************************************)
Abs(x) == IF x < 0 THEN -x ELSE x

RECURSIVE Gcd(_, _)
Gcd(a, b) == IF b = 0 THEN a ELSE Gcd(b, a % b)

Rat(n, d) ==
    LET g == Gcd(Abs(n), Abs(d))
        sg == IF d < 0 THEN -1 ELSE 1
    IN  << (sg * n) \div g, (sg * d) \div g >>

RatInt(n) == << n, 1 >>

RatAdd(x, y) == Rat(x[1] * y[2] + y[1] * x[2], x[2] * y[2])

RatDiv(x, y) == Rat(x[1] * y[2], x[2] * y[1])

RatNeg(x) == x[1] < 0

RatIsZero(x) == x[1] = 0

\* A conversion that yields 1 whatever the quotient.
RatTruncOne(x) == 1

\* Go's int(f): truncation toward zero.
RatTrunc(x) ==
    IF x[1] >= 0 THEN x[1] \div x[2] ELSE -((-x[1]) \div x[2])

DigitVal(c) ==
    CASE c = "0" -> 0
      [] c = "1" -> 1
      [] c = "2" -> 2
      [] c = "5" -> 5

RECURSIVE DigitsVal(_)
DigitsVal(s) ==
    IF Len(s) = 0 THEN 0
    ELSE DigitsVal(Take(s, Len(s) - 1)) * 10 + DigitVal(s[Len(s)])

RECURSIVE Pow10(_)
Pow10(n) == IF n = 0 THEN 1 ELSE 10 * Pow10(n - 1)

AllDigits(s) == \A i \in 1..Len(s) : s[i] \in Digits

\* strconv.ParseFloat(s, 64) on the bytes of the model: an optional sign,
\* digits, an optional point and digits, at least one digit in all. The
\* alphabet has none of the bytes of an exponent, a hex float, "inf" or
\* "nan", so this is the whole of the syntax. A failed parse yields 0.
ParseFloat(s) ==
    LET signed == Len(s) > 0 /\ s[1] \in {"+", "-"}
        body == IF signed THEN Tail(s) ELSE s
        dot == IndexFrom(body, ".", 1)
        ip == IF dot = 0 THEN body ELSE Take(body, dot - 1)
        fp == IF dot = 0 THEN << >> ELSE Drop(body, dot)
        ok == AllDigits(ip) /\ AllDigits(fp) /\ Len(ip) + Len(fp) > 0
        mag == Rat(DigitsVal(ip) * Pow10(Len(fp)) + DigitsVal(fp), Pow10(Len(fp)))
    IN  IF ~ok THEN [ok |-> FALSE, val |-> RatInt(0)]
        ELSE [ok |-> TRUE,
              val |-> IF signed /\ s[1] = "-" THEN << -mag[1], mag[2] >> ELSE mag]

(***************************************************************************)
(* escapeMetricName                                                        *)
(***************************************************************************)
Panic == << "!panic" >>

\* The loop of escapeMetricName from the 1-based byte position i on: offset
\* is the code's 0-based offset, sb the builder's content. A slice
\* metricName[offset:i] with offset > i panics.
RECURSIVE EscapeLoop(_, _, _, _, _)
EscapeLoop(s, i, offset, escaped, sb) ==
    IF i > Len(s)
    THEN IF ~escaped THEN s
         ELSE IF offset < Len(s) THEN sb \o Drop(s, offset) ELSE sb
    ELSE LET d == DecodeRune(s, i)
         IN  IF IsValidNameRune(d.r)
             THEN EscapeLoop(s, i + d.w, offset, escaped, sb)
             ELSE IF offset > i - 1 THEN Panic
             ELSE EscapeLoop(s, i + d.w, (i - 1) + RuneLen(d.r), TRUE,
                             sb \o SubSeq(s, offset + 1, i - 1) \o << "_" >>)

escapeMetricName(metricName) ==
    IF Len(metricName) = 0 THEN << >>
    ELSE IF metricName[1] \in Digits
         THEN EscapeLoop(metricName, 1, 0, TRUE, << "_" >>)
         ELSE EscapeLoop(metricName, 1, 0, FALSE, << >>)

(***************************************************************************)
(* Operational counters of the parser: sample_errors by reason,            *)
(* samples_received, tags_received and tag_errors.                         *)
(***************************************************************************)
ParserCounters ==
    {"malformed_line", "malformed_component", "malformed_value",
     "invalid_sample_factor", "mixed_tagging_styles", "illegal_event",
     "samples_received", "tags_received", "tag_errors"}

SampleErrorReasons ==
    {"malformed_component", "malformed_value", "invalid_sample_factor",
     "illegal_event"}

ZeroCounters == [n \in ParserCounters |-> 0]

Inc(c, n) == [c EXCEPT ![n] = @ + 1]

(***************************************************************************)
(* Labels: a Go map[string]string, as the set of its <<key, value>> pairs. *)
(***************************************************************************)
LabelKeys(labels) == {p[1] : p \in labels}

SetLabel(labels, k, v) == {p \in labels : p[1] # k} \cup {<< k, v >>}

(***************************************************************************)
(* buildEvent                                                              *)
(***************************************************************************)
TimerStatTypes == {<< "m", "s" >>, << "h" >>, << "d" >>}

\* The event buildEvent returns for the stat type, ok = FALSE for its error
\* returns ("s" and every unknown type). The labels map is shared by
\* reference among the events of one line and is kept with the batch.
buildEvent(statType, metric, value, relative) ==
    CASE statType = << "c" >> ->
             [ok |-> TRUE,
              ev |-> [type |-> "counter", metricName |-> metric,
                      value |-> value, relative |-> FALSE]]
      [] statType = << "g" >> ->
             [ok |-> TRUE,
              ev |-> [type |-> "gauge", metricName |-> metric,
                      value |-> value, relative |-> relative]]
      [] statType \in TimerStatTypes ->
             [ok |-> TRUE,
              ev |-> [type |-> "timer", metricName |-> metric,
                      value |-> value, relative |-> FALSE]]
      [] OTHER ->
             [ok |-> FALSE,
              ev |-> [type |-> "none", metricName |-> metric,
                      value |-> value, relative |-> FALSE]]

(***************************************************************************)
(* Tag parsing. The parser state st is [labels, c]: the labels map of the  *)
(* line and the operational counters.                                      *)
(***************************************************************************)
parseTag(tag, separator, st) ==
    IF Len(tag) = 0 THEN [st EXCEPT !.c = Inc(@, "tag_errors")]
    ELSE LET i == IndexFrom(tag, separator, 1)
         IN  IF i = 0 THEN [st EXCEPT !.c = Inc(@, "tag_errors")]
             ELSE LET k == Take(tag, i - 1)
                      v == Drop(tag, i)
                  IN  IF Len(k) = 0 \/ Len(v) = 0
                      THEN [st EXCEPT !.c = Inc(@, "tag_errors")]
                      ELSE [st EXCEPT !.labels =
                                SetLabel(@, escapeMetricName(k), v)]

trimLeftHash(s) == IF Len(s) > 0 /\ s[1] = "#" THEN Tail(s) ELSE s

\* The loop shared by parseNameTags and parseDogStatsDTags over the pieces
\* between commas: every piece before a comma is parsed, the piece after the
\* last comma only when it is not empty.
RECURSIVE ParseTagPieces(_, _, _, _)
ParseTagPieces(pieces, separator, trim, st) ==
    LET tag == IF trim THEN trimLeftHash(pieces[1]) ELSE pieces[1]
    IN  IF Len(pieces) = 1
        THEN IF Len(pieces[1]) = 0 THEN st ELSE parseTag(tag, separator, st)
        ELSE ParseTagPieces(Tail(pieces), separator, trim,
                            parseTag(tag, separator, st))

parseNameTags(component, st) ==
    ParseTagPieces(Split(component, ","), "=", FALSE, st)

parseDogStatsDTags(component, st) ==
    ParseTagPieces(Split(component, ","), ":", TRUE, st)

\* The 1-based position of the first "#" or "," of name, 0 when none.
TagStart(name) ==
    LET h == IndexFrom(name, "#", 1)
        k == IndexFrom(name, ",", 1)
    IN  IF h = 0 THEN k ELSE IF k = 0 THEN h ELSE IF h < k THEN h ELSE k

\* parseNameAndTags: the metric name and the parser state after the inline
\* tag block.
parseNameAndTags(name, st) ==
    LET i == TagStart(name)
    IN  IF i = 0 THEN [metric |-> name, st |-> st]
        ELSE [metric |-> Take(name, i - 1),
              st |-> parseNameTags(Drop(name, i), st)]

(***************************************************************************)
(* lineToEvents                                                            *)
(***************************************************************************)
\* One suffix component (components[2:]) of a sample, lines 433-459. cs is
\* [st, value, mult]: the parser state, the sample's value and
\* multiplyEvents. A sampling factor that does not parse is counted, leaves
\* samplingFactor 0 and so is replaced by 1; the sample goes on.
applyComponent(component, statType, cs) ==
    CASE component[1] = "@" ->
             LET pf == ParseFloat(Tail(component))
                 st1 == IF pf.ok THEN cs.st
                        ELSE [cs.st EXCEPT !.c = Inc(@, "invalid_sample_factor")]
                 samplingFactor == IF RatIsZero(pf.val) THEN RatInt(1) ELSE pf.val
             IN  IF statType = << "g" >> THEN [cs EXCEPT !.st = st1]
                 ELSE IF statType = << "c" >>
                 THEN [cs EXCEPT !.st = st1,
                                 !.value = RatDiv(@, samplingFactor)]
                 ELSE IF statType \in TimerStatTypes
                 THEN [cs EXCEPT !.st = st1,
                                 !.mult = RatTrunc(RatDiv(RatInt(1), samplingFactor))]
                 ELSE [cs EXCEPT !.st = st1]
      [] component[1] = "#" ->
             [cs EXCEPT !.st = parseDogStatsDTags(Tail(component), cs.st)]
      [] OTHER ->
             [cs EXCEPT !.st.c = Inc(@, "invalid_sample_factor")]

RECURSIVE applyComponents(_, _, _)
applyComponents(components, statType, cs) ==
    IF Len(components) = 0 THEN cs
    ELSE applyComponents(Tail(components), statType,
                         applyComponent(components[1], statType, cs))

\* The loop of lines 467-475: multiplyEvents calls of buildEvent, each
\* appending its event or counting illegal_event.
RECURSIVE emitEvents(_, _, _)
emitEvents(n, built, out) ==
    IF n <= 0 THEN out
    ELSE emitEvents(n - 1, built,
                    IF built.ok
                    THEN [out EXCEPT !.events = Append(@, built.ev)]
                    ELSE [out EXCEPT !.st.c = Inc(@, "illegal_event")])

TagsReceived(st) ==
    IF st.labels # {} THEN [st EXCEPT !.c = Inc(@, "tags_received")] ELSE st

\* Lines 463-475: count tags_received, then build and append the events.
finishSample(statType, metric, relative, cs) ==
    emitEvents(cs.mult, buildEvent(statType, metric, cs.value, relative),
               [st |-> TagsReceived(cs.st), events |-> << >>])

\* A test that takes only "+" for the sign of a relative value.
IsRelativePlusOnly(valueStr) == Len(valueStr) > 0 /\ valueStr[1] = "+"

\* Lines 411-414: relative, the value string starts with "+" or "-".
IsRelative(valueStr) == Len(valueStr) > 0 /\ valueStr[1] \in {"+", "-"}

\* Lines 416-461 for the components of a sample and its parsed value pv.
sampleComponents(components, metric, st, pv) ==
    IF ~pv.ok
    THEN [st |-> [st EXCEPT !.c = Inc(@, "malformed_value")], events |-> << >>]
    ELSE IF \E i \in 3..Len(components) : Len(components[i]) = 0
    THEN [st |-> [st EXCEPT !.c = Inc(@, "malformed_component")],
          events |-> << >>]
    ELSE finishSample(components[2], metric, IsRelative(components[1]),
                      applyComponents(Drop(components, 2), components[2],
                                      [st |-> st, value |-> pv.val, mult |-> 1]))

\* Lines 402-416 for the components of a sample.
sampleSplit(components, metric, st) ==
    IF Len(components) < 2 \/ Len(components) > 4
    THEN [st |-> [st EXCEPT !.c = Inc(@, "malformed_component")],
          events |-> << >>]
    ELSE sampleComponents(components, metric, st, ParseFloat(components[1]))

\* One iteration of the samples loop, lines 400-476: the parser state after
\* the sample and the events it appends.
sampleToEvents(sample, metric, st0) ==
    sampleSplit(Split(sample, "|"), metric,
                [st0 EXCEPT !.c = Inc(@, "samples_received")])

\* The result r = [st, events, perSample] of the samples loop with one more
\* sample: perSample keeps, for each sample, the events it appended and the
\* counters it counted.
appendSample(r, sample, one) ==
    [st |-> one.st,
     events |-> r.events \o one.events,
     perSample |-> Append(r.perSample,
                          [sample |-> sample,
                           events |-> one.events,
                           counted |-> [n \in ParserCounters |->
                                           one.st.c[n] - r.st.c[n]]])]

RECURSIVE samplesLoop(_, _, _)
samplesLoop(samples, metric, r) ==
    IF Len(samples) = 0 THEN r
    ELSE samplesLoop(Tail(samples), metric,
                     appendSample(r, samples[1],
                                  sampleToEvents(samples[1], metric, r.st)))

\* What lineToEvents returns: the events, the labels map they share, the
\* operational counters the call counted, the metric name and the samples
\* parsed.
LineResult(events, labels, c, metric, perSample) ==
    [events |-> events, labels |-> labels, c |-> c, metric |-> metric,
     perSample |-> perSample]

lineDone(nt, r) == LineResult(r.events, r.st.labels, r.st.c, nt.metric, r.perSample)

\* lineSamples without the check of lines 388-392: a line that mixes the two
\* tagging styles goes on to the samples loop.
lineSamplesMixedAllowed(rest, nt) ==
    IF ContainsPipeHash(rest)
    THEN lineDone(nt, samplesLoop(<< rest >>, nt.metric,
                      [st |-> nt.st, events |-> << >>, perSample |-> << >>]))
    ELSE lineDone(nt, samplesLoop(Split(rest, ":"), nt.metric,
                      [st |-> nt.st, events |-> << >>, perSample |-> << >>]))

\* Lines 383-398 and the samples loop, after parseNameAndTags returned nt.
lineSamples(rest, nt) ==
    IF ContainsPipeHash(rest)
    THEN IF nt.st.labels # {}
         THEN LineResult(<< >>, nt.st.labels,
                         Inc(nt.st.c, "mixed_tagging_styles"), nt.metric, << >>)
         ELSE lineDone(nt, samplesLoop(<< rest >>, nt.metric,
                           [st |-> nt.st, events |-> << >>, perSample |-> << >>]))
    ELSE lineDone(nt, samplesLoop(Split(rest, ":"), nt.metric,
                      [st |-> nt.st, events |-> << >>, perSample |-> << >>]))

\* Lines 374-381 for the elements of the line.
lineElements(line, elements) ==
    IF Len(elements) < 2 \/ Len(elements[1]) = 0 \/ ~ValidString(line)
    THEN LineResult(<< >>, {}, Inc(ZeroCounters, "malformed_line"), << >>, << >>)
    ELSE lineSamples(elements[2],
                     parseNameAndTags(elements[1],
                                      [labels |-> {}, c |-> ZeroCounters]))

lineToEvents(line) ==
    IF Len(line) = 0
    THEN LineResult(<< >>, {}, ZeroCounters, << >>, << >>)
    ELSE lineElements(line, SplitN2(line, ":"))

(***************************************************************************)
(* The mapper (pkg/mapper) behind b.mapper.GetMapping, and its Defaults.   *)
(* A rule set of four rules stands for the configuration.                  *)
(***************************************************************************)
Nil == [Action |-> "nil"]

TimerTypeDefault == ""

TimerTypeHistogram == "histogram"

TimerTypeSummary == "summary"

ActionTypeDrop == "drop"

\* The lookup's result: the matching rule (Nil when none), the labels the
\* rule extracts, and whether a rule matched.
GetMapping(metricName, metricType) ==
    CASE metricName = << "b" >> ->
             [mapping |-> [Action |-> "map", Name |-> << "b", ".", "v" >>,
                           TimerType |-> TimerTypeHistogram, Ttl |-> 1,
                           HelpText |-> "help of b"],
              labels |-> {<< << "k" >>, << "m" >> >>},
              present |-> TRUE]
      [] metricName = << "d" >> ->
             [mapping |-> [Action |-> ActionTypeDrop, Name |-> << "d" >>,
                           TimerType |-> TimerTypeDefault, Ttl |-> 0,
                           HelpText |-> ""],
              labels |-> {},
              present |-> TRUE]
      [] metricName = << "m" >> ->
             [mapping |-> [Action |-> "map", Name |-> << >>,
                           TimerType |-> TimerTypeDefault, Ttl |-> 0,
                           HelpText |-> ""],
              labels |-> {},
              present |-> TRUE]
      [] metricName = << "k" >> /\ metricType = "counter" ->
             [mapping |-> [Action |-> "map", Name |-> << "k" >>,
                           TimerType |-> TimerTypeDefault, Ttl |-> 0,
                           HelpText |-> ""],
              labels |-> {<< << "z" >>, << "1" >> >>},
              present |-> TRUE]
      [] OTHER ->
             [mapping |-> Nil, labels |-> {}, present |-> FALSE]

(***************************************************************************)
(* The registry (registry.go): slots keyed by <<name, labels>>, and the    *)
(* label key-set of each metric family. reg is [slots, families].          *)
(***************************************************************************)
EmptyMap == [k \in {} |-> 0]

EmptyRegistry == [slots |-> EmptyMap, families |-> EmptyMap]

SlotKeys(reg) == DOMAIN reg.slots

\* A registry that lets a family take any label key-set.
FamilyNeverMismatch(reg, metricName, labels) == FALSE

\* The family of the name exists with another label key-set.
FamilyMismatch(reg, metricName, labels) ==
    /\ metricName \in DOMAIN reg.families
    /\ reg.families[metricName] # LabelKeys(labels)

\* A lookup getCounter / getGauge / getHistogram / getSummary at time t:
\* a conflict (ok = FALSE, nothing changed) when the family of the name has
\* another label key-set or the slot has another kind; else the slot, its
\* last activity refreshed, created when absent with the mapping's TTL.
registryGet(kind, metricName, labels, help, mapping, reg, t) ==
    LET key == << metricName, labels >>
    IN  IF FamilyMismatch(reg, metricName, labels)
        THEN [ok |-> FALSE, reg |-> reg, key |-> key]
        ELSE IF key \in DOMAIN reg.slots
        THEN IF reg.slots[key].kind # kind
             THEN [ok |-> FALSE, reg |-> reg, key |-> key]
             ELSE [ok |-> TRUE,
                   reg |-> [reg EXCEPT !.slots[key].last = t],
                   key |-> key]
        ELSE [ok |-> TRUE,
              reg |-> [slots |->
                           [k \in DOMAIN reg.slots \cup {key} |->
                               IF k = key
                               THEN [kind |-> kind, value |-> RatInt(0),
                                     count |-> 0, ttl |-> mapping.Ttl,
                                     last |-> t, help |-> help]
                               ELSE reg.slots[k]],
                       families |->
                           [n \in DOMAIN reg.families \cup {metricName} |->
                               IF n = metricName THEN LabelKeys(labels)
                               ELSE reg.families[n]]],
              key |-> key]

IsStale(slot, t) == slot.ttl > 0 /\ t - slot.last > slot.ttl

\* removeStaleMetrics at time t
removeStaleMetrics(reg, t) ==
    [reg EXCEPT !.slots =
        [k \in {k \in DOMAIN reg.slots : ~IsStale(reg.slots[k], t)} |->
            reg.slots[k]]]

\* Counter.Add, Gauge.Add
SlotAdd(reg, key, v) ==
    [reg EXCEPT !.slots[key].value = RatAdd(@, v)]

\* Gauge.Set
SlotSet(reg, key, v) ==
    [reg EXCEPT !.slots[key].value = v]

\* Histogram.Observe, Summary.Observe
SlotObserve(reg, key, v) ==
    [reg EXCEPT !.slots[key].value = RatAdd(@, v),
                !.slots[key].count = @ + 1]

(***************************************************************************)
(* Exporter.handleEvent                                                    *)
(***************************************************************************)
defaultHelp == "Metric autogenerated by statsd_exporter."

\* What one call of handleEvent leaves behind: the registry, the labels map
\* of the event (shared with the other events of its line), the operational
\* counters it incremented in order, the registry lookup it made (kind
\* "none" when it made none), the accumulator call ("none" when none) and
\* whether it ended the process.
Outcome(reg, labels, incs, kind, name, update, amount, exited) ==
    [reg |-> reg, labels |-> labels, incs |-> incs, kind |-> kind,
     name |-> name, update |-> update, amount |-> amount, exited |-> exited]

\* A handled event counted under events_unmapped only.
eventStatsAsUnmapped(type) == "events_unmapped"

\* b.eventStats.WithLabelValues(type)
eventStats(type) ==
    CASE type = "counter" -> "events{counter}"
      [] type = "gauge" -> "events{gauge}"
      [] type = "timer" -> "events{timer}"
      [] OTHER -> "events{illegal}"

\* A conflict counted as a handled event.
conflictCountedAsEvent(type) == eventStats(type)

\* b.conflictingEventStats.WithLabelValues(type) (lines 188, 203, 223, 233)
conflictingEventStats(type) ==
    CASE type = "counter" -> "events_conflict{counter}"
      [] type = "gauge" -> "events_conflict{gauge}"
      [] OTHER -> "events_conflict{timer}"

\* A check of line 176 that lets every value pass.
NeverNegative(value) == FALSE

\* event.Value() < 0.0 (line 176)
IsNegative(value) == RatNeg(value)

\* A resolution that takes the defaults' timer type whatever the mapping's.
timerTypeOfDefaults(mappingType, defaultsType) == defaultsType

\* Lines 207-213: t, the mapping's timer type and, when that is the
\* default, the timer type of the mapper's defaults.
timerType(mappingType, defaultsType) ==
    IF mappingType = TimerTypeDefault THEN defaultsType ELSE mappingType

\* Lines 172-244: the dispatch on the event's variant once the name, the
\* labels and the help text are known.
dispatchEvent(event, metricName, prometheusLabels, help, mapping, incs, reg, dflt, t) ==
    CASE event.type = "counter" ->
             IF IsNegative(event.value)
             THEN Outcome(reg, prometheusLabels,
                          Append(incs, "error_event_stats{illegal_negative_counter}"),
                          "none", metricName, "none", RatInt(0), FALSE)
             ELSE LET g == registryGet("counter", metricName, prometheusLabels,
                                       help, mapping, reg, t)
                  IN  IF g.ok
                      THEN Outcome(SlotAdd(g.reg, g.key, event.value),
                                   prometheusLabels,
                                   Append(incs, eventStats("counter")),
                                   "counter", metricName, "Add", event.value, FALSE)
                      ELSE Outcome(g.reg, prometheusLabels,
                                   Append(incs, conflictingEventStats("counter")),
                                   "counter", metricName, "none", RatInt(0), FALSE)
      [] event.type = "gauge" ->
             LET g == registryGet("gauge", metricName, prometheusLabels,
                                  help, mapping, reg, t)
             IN  IF g.ok
                 THEN Outcome(IF event.relative
                              THEN SlotAdd(g.reg, g.key, event.value)
                              ELSE SlotSet(g.reg, g.key, event.value),
                              prometheusLabels,
                              Append(incs, eventStats("gauge")),
                              "gauge", metricName,
                              IF event.relative THEN "Add" ELSE "Set",
                              event.value, FALSE)
                 ELSE Outcome(g.reg, prometheusLabels,
                              Append(incs, conflictingEventStats("gauge")),
                              "gauge", metricName, "none", RatInt(0), FALSE)
      [] event.type = "timer" ->
             LET tt == timerType(mapping.TimerType, dflt.TimerType)
                 kind == IF tt = TimerTypeHistogram THEN "histogram" ELSE "summary"
                 g == registryGet(kind, metricName, prometheusLabels,
                                  help, mapping, reg, t)
                 secs == RatDiv(event.value, RatInt(1000))
             IN  IF tt \notin {TimerTypeHistogram, TimerTypeDefault, TimerTypeSummary}
                 THEN Outcome(reg, prometheusLabels, incs,
                              "none", metricName, "none", RatInt(0), TRUE)
                 ELSE IF g.ok
                 THEN Outcome(SlotObserve(g.reg, g.key, secs),
                              prometheusLabels,
                              Append(incs, eventStats("timer")),
                              kind, metricName, "Observe", secs, FALSE)
                 ELSE Outcome(g.reg, prometheusLabels,
                              Append(incs, conflictingEventStats("timer")),
                              kind, metricName, "none", RatInt(0), FALSE)
      [] OTHER ->
             Outcome(reg, prometheusLabels, Append(incs, eventStats("illegal")),
                     "none", metricName, "none", RatInt(0), FALSE)

RECURSIVE MergeLabels(_, _)
MergeLabels(into, from) ==
    IF from = {} THEN into
    ELSE LET p == CHOOSE q \in from : TRUE
         IN  MergeLabels(SetLabel(into, p[1], p[2]), from \ {p})

\* handleEvent(event) on the registry reg at time t under the mapper's
\* defaults dflt; labels is the map event.Labels() returns, which line 164
\* writes into.
handleEvent(event, labels, reg, dflt, t) ==
    LET m == GetMapping(event.metricName, event.type)
        mapping == IF m.mapping = Nil
                   THEN [Action |-> "", Name |-> << >>,
                         TimerType |-> TimerTypeDefault,
                         Ttl |-> IF dflt.Ttl # 0 THEN dflt.Ttl ELSE 0,
                         HelpText |-> ""]
                   ELSE m.mapping
        help == IF mapping.HelpText # "" THEN mapping.HelpText ELSE defaultHelp
    IN  IF mapping.Action = ActionTypeDrop
        THEN Outcome(reg, labels, << "events_actions{drop}" >>,
                     "none", << >>, "none", RatInt(0), FALSE)
        ELSE IF m.present
        THEN IF mapping.Name = << >>
             THEN Outcome(reg, labels,
                          << "error_event_stats{empty_metric_name}" >>,
                          "none", << >>, "none", RatInt(0), FALSE)
             ELSE dispatchEvent(event, escapeMetricName(mapping.Name),
                                MergeLabels(labels, m.labels), help, mapping,
                                << "events_actions{map}" >>, reg, dflt, t)
        ELSE dispatchEvent(event, escapeMetricName(event.metricName),
                           labels, help, mapping,
                           << "events_unmapped" >>, reg, dflt, t)

(***************************************************************************)
(* The system: listeners, the event-batch channel, Exporter.Listen, the    *)
(* clock and its one-second ticker.                                        *)
(***************************************************************************)
VARIABLES
    net,           \* the packets the network may deliver to each listener
    dflt,          \* the mapper's Defaults: [Ttl, TimerType]
    chan,          \* the event-batch channel: the batches queued, in order
    closed,        \* the channel has been closed
    lpc,           \* each listener: "read", "queue" or "returned"
    pkt,           \* each listener: the lines of the packet it read last
    li,            \* each listener: the index of the next line to queue
    rcvd,          \* each listener: the packets it has read, in order
    epc,           \* Exporter.Listen: "select", "handling", "returned", "exited"
    cur,           \* the batch Listen is ranging over, and the next index
    handled,       \* each listener: its events handleEvent was called on
    reg,           \* the registry
    stats,         \* the operational counters of handleEvent
    accepted,      \* per metric name, the label key-sets of accepted events
    last,          \* what the last step of Listen did
    now,           \* the clock
    tickPending,   \* the ticker's channel holds a tick
    tickerStopped, \* removeStaleMetricsTicker.Stop() was called
    pline,         \* the parser on its own: the input line
    pdone,         \* the parser on its own: lineToEvents has returned
    presult,       \* the parser on its own: what lineToEvents returned
    ename,         \* the escaping on its own: the input name
    eout,          \* the escaping on its own: the results of the calls so far
    sock,          \* the sockets on their own: each listener's loop
    conns,         \* the sockets on their own: the TCP connections accepted
    reads,         \* the sockets on their own: the reads that returned data
    proc,          \* the sockets on their own: the process, "running" or "exited"
    ioerr          \* the sockets on their own: the last error a socket returned

cfgvars == << net, dflt >>

chanvars == << chan, closed >>

lvars == << lpc, pkt, li, rcvd >>

evars == << epc, cur, handled, reg, stats, accepted, last >>

clockvars == << now, tickPending, tickerStopped >>

sysvars == << cfgvars, chanvars, lvars, evars, clockvars >>

parsevars == << pline, pdone, presult >>

escvars == << ename, eout >>

sockvars == << sock, conns, reads, proc, ioerr >>

sidevars == << parsevars, escvars, sockvars >>

vars == << sysvars, sidevars >>

Listeners == {"udp", "tcp"}

NL == "\n"

\* The lines a listener hands to lineToEvents for the bytes it read: the UDP
\* listener splits the datagram at "\n" (handlePacket), the TCP connection
\* reads line by line until the end of the stream (handleConn), where a
\* final empty line is no line.
PacketLines(l, packet) ==
    IF l = "tcp" /\ Len(Split(packet, NL)[Len(Split(packet, NL))]) = 0
    THEN Take(Split(packet, NL), Len(Split(packet, NL)) - 1)
    ELSE Split(packet, NL)

\* a:2|c:1|c:5|g
PktCounterGauge ==
    << "a", ":", "2", "|", "c", ":", "1", "|", "c", ":", "5", "|", "g" >>

\* a,k=v:1|c \n a:-1|c
PktTaggedNegative ==
    << "a", ",", "k", "=", "v", ":", "1", "|", "c", NL,
       "a", ":", "-", "1", "|", "c" >>

\* b:2|ms|@0.5 \n d:1|c
PktTimerDrop ==
    << "b", ":", "2", "|", "m", "s", "|", "@", "0", ".", "5", NL,
       "d", ":", "1", "|", "c" >>

\* a:5|g \n a:-1|g \n
PktGauges ==
    << "a", ":", "5", "|", "g", NL, "a", ":", "-", "1", "|", "g", NL >>

\* m:1|c \n a:5|ms
PktEmptyNameTimer ==
    << "m", ":", "1", "|", "c", NL, "a", ":", "5", "|", "m", "s" >>

\* k:1|c:2|g
PktTypedRule ==
    << "k", ":", "1", "|", "c", ":", "2", "|", "g" >>

\* The packets each listener may read.
Packets ==
    [l \in Listeners |->
        IF l = "udp"
        THEN {PktCounterGauge, PktGauges, PktTimerDrop}
        ELSE {PktTaggedNegative, PktEmptyNameTimer, PktTypedRule}]

StatNames ==
    {"events_actions{drop}", "events_actions{map}", "events_unmapped",
     "error_event_stats{empty_metric_name}",
     "error_event_stats{illegal_negative_counter}",
     "events{counter}", "events{gauge}", "events{timer}", "events{illegal}",
     "events_conflict{counter}", "events_conflict{gauge}",
     "events_conflict{timer}"}

RECURSIVE IncAll(_, _)
IncAll(st, incs) ==
    IF Len(incs) = 0 THEN st
    ELSE IncAll([st EXCEPT ![incs[1]] = @ + 1], Tail(incs))

NoBatch ==
    [src |-> "none", pk |-> 0, line |-> 0, events |-> << >>, labels |-> {},
     k |-> 1]

NoStep == [op |-> "none"]

ValidTimerTypes == {TimerTypeDefault, TimerTypeHistogram, TimerTypeSummary}

EscIdle ==
    /\ ename = << >>
    /\ eout = << >>

SocketListeners == {"udp", "tcp", "unixgram"}

NoError == [op |-> "none", on |-> "none", err |-> "none"]

SockIdle ==
    /\ sock = [l \in SocketListeners |-> "listening"]
    /\ conns = << >>
    /\ reads = 0
    /\ proc = "running"
    /\ ioerr = NoError

ParseIdle ==
    /\ pline = << >>
    /\ pdone = FALSE
    /\ presult = lineToEvents(<< >>)
    /\ EscIdle
    /\ SockIdle

SysInit(packets, defaults) ==
    /\ net = packets
    /\ dflt \in defaults
    /\ chan = << >>
    /\ closed = FALSE
    /\ lpc = [l \in Listeners |-> "read"]
    /\ pkt = [l \in Listeners |-> << >>]
    /\ li = [l \in Listeners |-> 1]
    /\ rcvd = [l \in Listeners |-> << >>]
    /\ epc = "select"
    /\ cur = NoBatch
    /\ handled = [l \in Listeners |-> << >>]
    /\ reg = EmptyRegistry
    /\ stats = [n \in StatNames |-> 0]
    /\ accepted = EmptyMap
    /\ last = NoStep
    /\ now = 0
    /\ tickPending = FALSE
    /\ tickerStopped = FALSE

\* The mapper configurations of the model: a default TTL of none or of one
\* second, and each timer type the configuration loader accepts.
Defaults == [Ttl : {0, 1}, TimerType : ValidTimerTypes]

Init == SysInit(Packets, Defaults) /\ ParseIdle

Running == epc # "exited"

(***************************************************************************)
(* The listeners.                                                          *)
(***************************************************************************)
\* ReadFromUDP / ReadLine returns the bytes of a packet; handlePacket splits
\* them into lines.
ListenerRead(l) ==
    /\ Running
    /\ lpc[l] = "read"
    /\ Len(rcvd[l]) < MaxPackets
    /\ \E packet \in net[l] :
          /\ pkt' = [pkt EXCEPT ![l] = PacketLines(l, packet)]
          /\ rcvd' = [rcvd EXCEPT ![l] = Append(@, packet)]
          /\ lpc' = [lpc EXCEPT ![l] =
                        IF PacketLines(l, packet) = << >> THEN "read" ELSE "queue"]
    /\ li' = [li EXCEPT ![l] = 1]
    /\ UNCHANGED << cfgvars, chanvars, evars, clockvars, sidevars >>

\* The channel can take a batch: it is open and not full.
CanQueue(c, isClosed) == ~isClosed /\ Len(c) < ChanCap

\* eventHandler.queue(events): the batch is the channel's last.
queue(c, batch) == Append(c, batch)

\* One iteration of for _, line := range lines in handlePacket (and of the
\* loop of handleConn): l.eventHandler.queue(lineToEvents(line)), which
\* blocks while the channel is full.
ListenerQueue(l) ==
    /\ Running
    /\ lpc[l] = "queue"
    /\ CanQueue(chan, closed)
    /\ chan' = queue(chan,
                     [src |-> l, pk |-> Len(rcvd[l]), line |-> li[l],
                      events |-> lineToEvents(pkt[l][li[l]]).events,
                      labels |-> lineToEvents(pkt[l][li[l]]).labels,
                      k |-> 1])
    /\ li' = [li EXCEPT ![l] = @ + 1]
    /\ lpc' = [lpc EXCEPT ![l] = IF li[l] = Len(pkt[l]) THEN "read" ELSE "queue"]
    /\ UNCHANGED << cfgvars, closed, pkt, rcvd, evars, clockvars, sidevars >>

\* The read fails (the socket was closed, the stream ended): Listen returns.
ListenerReturn(l) ==
    /\ Running
    /\ lpc[l] = "read"
    /\ lpc' = [lpc EXCEPT ![l] = "returned"]
    /\ UNCHANGED << cfgvars, chanvars, pkt, li, rcvd, evars, clockvars,
                    sidevars >>

\* The owner of the channel closes it once the producers have returned (a
\* send on a closed channel panics).
CloseChannel ==
    /\ Running
    /\ ~closed
    /\ \A l \in Listeners : lpc[l] = "returned"
    /\ closed' = TRUE
    /\ UNCHANGED << cfgvars, chan, lvars, evars, clockvars, sidevars >>

\* A second passes: the clock advances and the ticker, unless stopped,
\* leaves a tick in its channel (of capacity one).
AdvanceClock ==
    /\ Running
    /\ now < MaxTime
    /\ now' = now + 1
    /\ tickPending' = IF tickerStopped THEN tickPending ELSE TRUE
    /\ UNCHANGED << cfgvars, chanvars, lvars, evars, tickerStopped, sidevars >>

(***************************************************************************)
(* Exporter.Listen                                                         *)
(***************************************************************************)
\* The tick case of the select with the registry it leaves.
ListenTickWith(newReg) ==
    /\ epc = "select"
    /\ tickPending
    /\ tickPending' = FALSE
    /\ reg' = newReg
    /\ last' = [op |-> "tick", t |-> now,
                evicted |-> Cardinality(DOMAIN reg.slots)
                            - Cardinality(DOMAIN newReg.slots)]
    /\ UNCHANGED << cfgvars, chanvars, lvars, epc, cur, handled, stats,
                    accepted, now, tickerStopped, sidevars >>

\* The tick case never taken.
ListenTickNever == FALSE /\ ListenTickWith(reg)

\* The tick case taken in the middle of the range over a batch as well.
ListenTickWhileHandling ==
    /\ epc \in {"select", "handling"}
    /\ tickPending
    /\ tickPending' = FALSE
    /\ reg' = removeStaleMetrics(reg, now)
    /\ last' = [op |-> "tick", t |-> now,
                evicted |-> Cardinality(DOMAIN reg.slots)
                            - Cardinality(DOMAIN removeStaleMetrics(reg, now).slots)]
    /\ UNCHANGED << cfgvars, chanvars, lvars, epc, cur, handled, stats,
                    accepted, now, tickerStopped, sidevars >>

\* The tick case without the call of line 120.
ListenTickNoEviction == ListenTickWith(reg)

\* case <-removeStaleMetricsTicker.C (lines 119-120)
ListenTick == ListenTickWith(removeStaleMetrics(reg, now))

\* case events, ok := <-e with ok true (line 121): the batch at the head of
\* the channel; the range over an empty batch ends at once.
ListenReceive ==
    /\ epc = "select"
    /\ Len(chan) > 0
    /\ cur' = Head(chan)
    /\ chan' = Tail(chan)
    /\ epc' = IF Len(Head(chan).events) = 0 THEN "select" ELSE "handling"
    /\ last' = [op |-> "receive"]
    /\ UNCHANGED << cfgvars, closed, lvars, handled, reg, stats, accepted,
                    clockvars, sidevars >>

\* The receive case of the select when it takes notOk for the channel's
\* ok = false: stop the ticker and return.
ListenClosedIf(notOk) ==
    /\ epc = "select"
    /\ notOk
    /\ epc' = "returned"
    /\ tickerStopped' = TRUE
    /\ last' = [op |-> "return"]
    /\ UNCHANGED << cfgvars, chanvars, lvars, cur, handled, reg, stats,
                    accepted, now, tickPending, sidevars >>

\* Listen returning whenever it finds no batch in the channel.
ListenClosedOnEmpty == ListenClosedIf(Len(chan) = 0)

\* case events, ok := <-e with ok false (lines 122-126): the channel is
\* closed and every batch queued has been received.
ListenClosed == ListenClosedIf(closed /\ Len(chan) = 0)

\* The label key-sets accepted so far, with the one of an accepted event.
Accept(acc, name, keys) ==
    [n \in DOMAIN acc \cup {name} |->
        IF n = name
        THEN (IF n \in DOMAIN acc THEN acc[n] ELSE {}) \cup {keys}
        ELSE acc[n]]

\* One iteration of the range loop that calls handleEvent on the event at
\* index i of the batch and ends the loop when ends holds.
ListenHandleAt(i, ends, result) ==
    /\ epc = "handling"
    /\ \E out \in {result} :
          /\ reg' = out.reg
          /\ cur' = [cur EXCEPT !.labels = out.labels, !.k = @ + 1]
          /\ epc' = IF out.exited THEN "exited"
                    ELSE IF ends THEN "select" ELSE "handling"
          /\ stats' = IncAll(stats, out.incs)
          /\ handled' = [handled EXCEPT ![cur.src] =
                            Append(@, [pk |-> cur.pk, line |-> cur.line, k |-> i,
                                       ev |-> cur.events[i]])]
          /\ accepted' = IF out.update = "none" THEN accepted
                         ELSE Accept(accepted, out.name, LabelKeys(out.labels))
          /\ last' = [op |-> "handle", event |-> cur.events[i],
                      labelsIn |-> cur.labels, labels |-> out.labels,
                      incs |-> out.incs, kind |-> out.kind, name |-> out.name,
                      update |-> out.update, amount |-> out.amount]
    /\ UNCHANGED << cfgvars, chanvars, lvars, clockvars, sidevars >>

\* The range loop taking the events of the batch from its end.
ListenHandleReversed ==
    /\ epc = "handling"
    /\ ListenHandleAt(Len(cur.events) + 1 - cur.k, cur.k = Len(cur.events),
                      handleEvent(cur.events[Len(cur.events) + 1 - cur.k],
                                  cur.labels, reg, dflt, now))

\* The range loop leaving the batch after its first event.
ListenHandleFirstOnly ==
    /\ epc = "handling"
    /\ ListenHandleAt(cur.k, TRUE,
                      handleEvent(cur.events[cur.k], cur.labels, reg, dflt, now))

\* One iteration of for _, event := range events (lines 127-129):
\* b.handleEvent(event) on the next event of the batch.
ListenHandle ==
    /\ epc = "handling"
    /\ ListenHandleAt(cur.k, cur.k = Len(cur.events),
                      handleEvent(cur.events[cur.k], cur.labels, reg, dflt, now))

Next ==
    \/ \E l \in Listeners : ListenerRead(l)
    \/ \E l \in Listeners : ListenerQueue(l)
    \/ \E l \in Listeners : ListenerReturn(l)
    \/ CloseChannel
    \/ AdvanceClock
    \/ ListenTick
    \/ ListenReceive
    \/ ListenClosed
    \/ ListenHandle

Spec == Init /\ [][Next]_vars

\* The scheduling of the exporter's goroutine: it runs whenever it can, and
\* the runtime, choosing at random among the ready cases of the select,
\* passes over neither case for ever. A tick leaves the channel's case
\* ready, so weak fairness expresses it for the channel; handling a batch
\* leaves the select, so the tick's case needs strong fairness.
Fairness ==
    /\ WF_vars(ListenHandle)
    /\ WF_vars(ListenReceive)
    /\ WF_vars(ListenClosed)
    /\ SF_vars(ListenTick)

FairPackets ==
    [l \in Listeners |->
        IF l = "udp" THEN {PktCounterGauge, PktTimerDrop}
        ELSE {PktTaggedNegative}]

FairInit ==
    SysInit(FairPackets, {[Ttl |-> 1, TimerType |-> TimerTypeDefault]})
    /\ ParseIdle

FairSpec == FairInit /\ [][Next]_vars /\ Fairness

(***************************************************************************)
(* The system on inputs at the edge: a line whose name section is a tag    *)
(* block, a name to escape, and a mapper configuration whose default timer *)
(* type the exporter does not know.                                        *)
(***************************************************************************)
\* #k=v:1|c
PktTagOnlyName == << "#", "k", "=", "v", ":", "1", "|", "c" >>

\* b:2|ms \n a:5|ms
PktTimers ==
    << "b", ":", "2", "|", "m", "s", NL, "a", ":", "5", "|", "m", "s" >>

\* 1a.b:1|c
PktEscapedName == << "1", "a", ".", "b", ":", "1", "|", "c" >>

EdgePackets ==
    [l \in Listeners |->
        IF l = "udp" THEN {PktTagOnlyName, PktTimers}
        ELSE {PktEscapedName, PktEmptyNameTimer}]

TimerTypeUnknown == "unknown"

EdgeDefaults ==
    [Ttl : {0}, TimerType : ValidTimerTypes \cup {TimerTypeUnknown}]

EdgeInit == SysInit(EdgePackets, EdgeDefaults) /\ ParseIdle

EdgeSpec == EdgeInit /\ [][Next]_vars

(***************************************************************************)
(* Properties of the system, checked under Spec and FairSpec.              *)
(***************************************************************************)
\* The events lineToEvents returns for line number ln of packet number pk,
\* each with its place in the source.
LineEvents(pk, ln, line) ==
    [k \in 1..Len(lineToEvents(line).events) |->
        [pk |-> pk, line |-> ln, k |-> k, ev |-> lineToEvents(line).events[k]]]

\* The events of the first n lines of a packet, in the order of the lines.
RECURSIVE LinesEvents(_, _, _)
LinesEvents(pk, lns, n) ==
    IF n = 0 THEN << >>
    ELSE LinesEvents(pk, lns, n - 1) \o LineEvents(pk, n, lns[n])

\* The events of the lines listener l has queued of its first n packets: of
\* the packet it is working on the lines before index li[l], of the earlier
\* packets every line.
RECURSIVE QueuedUpTo(_, _)
QueuedUpTo(l, n) ==
    IF n = 0 THEN << >>
    ELSE QueuedUpTo(l, n - 1)
         \o LinesEvents(n, PacketLines(l, rcvd[l][n]),
                        IF n = Len(rcvd[l]) THEN li[l] - 1
                        ELSE Len(PacketLines(l, rcvd[l][n])))

QueuedEvents(l) == QueuedUpTo(l, Len(rcvd[l]))

\* The events of every line of the packets listener l has read.
RECURSIVE SourceUpTo(_, _)
SourceUpTo(l, n) ==
    IF n = 0 THEN << >>
    ELSE SourceUpTo(l, n - 1)
         \o LinesEvents(n, PacketLines(l, rcvd[l][n]),
                        Len(PacketLines(l, rcvd[l][n])))

SourceEvents(l) == SourceUpTo(l, Len(rcvd[l]))

IsPrefix(s, t) == Len(s) <= Len(t) /\ s = SubSeq(t, 1, Len(s))

\* The events of a batch from index k on, each with its place in the source.
BatchRest(batch, k) ==
    [i \in 1..(Len(batch.events) + 1 - k) |->
        [pk |-> batch.pk, line |-> batch.line, k |-> k + i - 1,
         ev |-> batch.events[k + i - 1]]]

\* The events of listener l in the batches of the channel, in order.
RECURSIVE ChanEvents(_, _)
ChanEvents(l, c) ==
    IF Len(c) = 0 THEN << >>
    ELSE (IF c[1].src = l THEN BatchRest(c[1], 1) ELSE << >>)
         \o ChanEvents(l, Tail(c))

\* The events of listener l that Listen has received and not yet handled.
InHand(l) ==
    IF epc = "handling" /\ cur.src = l THEN BatchRest(cur, cur.k) ELSE << >>

\* The step is an iteration of the range loop: a call of handleEvent.
HandleStep == epc = "handling" /\ handled' # handled

\* The event the next call of handleEvent is for.
NextEvent == cur.events[cur.k]

\* The step is the tick case of the select.
TickStep == epc = "select" /\ tickPending /\ ~tickPending'

SlotValue(r, key) ==
    IF key \in DOMAIN r.slots THEN r.slots[key].value ELSE RatInt(0)

\* The event passes the mapping of lines 136-170 and reaches the dispatch of
\* line 172: it matches no drop rule and no rule with an empty name.
ReachesDispatch(ev) ==
    /\ GetMapping(ev.metricName, ev.type).mapping = Nil
       \/ GetMapping(ev.metricName, ev.type).mapping.Action # ActionTypeDrop
    /\ GetMapping(ev.metricName, ev.type).present
        => GetMapping(ev.metricName, ev.type).mapping.Name # << >>

\* The operational counter events_conflict{type} of an event type.
ConflictStatOf(type) ==
    IF type = "counter" THEN "events_conflict{counter}"
    ELSE IF type = "gauge" THEN "events_conflict{gauge}"
    ELSE "events_conflict{timer}"

\* The operational counter events{type} of an event type.
EventStatOf(type) ==
    IF type = "counter" THEN "events{counter}"
    ELSE IF type = "gauge" THEN "events{gauge}"
    ELSE "events{timer}"

\* C1, safety: Listen has returned only if the channel is closed, and then
\* every batch queued has been handled and the ticker is stopped; while the
\* channel is open Listen has not returned.
C1_ReturnedOnlyWhenClosed ==
    epc = "returned" =>
        /\ closed
        /\ chan = << >>
        /\ tickerStopped
        /\ \A l \in Listeners : handled[l] = QueuedEvents(l)

\* C1: Listen returns if and only if the channel has been closed: it never
\* returns while the channel is open, and once the channel is closed it
\* eventually (under a fair choice between the ticker and the channel) has
\* handled every batch queued before the close, stopped the ticker and
\* returned.
C1_ListenReturnsIffClosed ==
    /\ [](~closed => epc # "returned")
    /\ []C1_ReturnedOnlyWhenClosed
    /\ closed ~> (epc = "returned")

\* C1's case: Listen has returned after the close, having handled events of
\* both listeners, with the clock advanced and no tick left in the ticker.
C1_Witness ==
    /\ epc = "returned"
    /\ closed
    /\ last.op = "return"
    /\ now > 0
    /\ ~tickPending
    /\ \A l \in Listeners : Len(handled[l]) > 0

\* C2: the events of one source are handled in source order: what
\* handleEvent has been called on for a listener is, at every moment, a
\* prefix of the events of the lines it read, in the order of the packets,
\* of the lines in a packet, of the samples in a line and of the copies of
\* a sampled timer, whatever the other listener queued in between.
C2_SourceOrder ==
    \A l \in Listeners : IsPrefix(handled[l], SourceEvents(l))

\* C2's case: the two copies of a sampled timer and the event of the next
\* line of the same datagram have been handled, with events of the other
\* listener handled as well.
C2_Witness ==
    /\ Len(handled["udp"]) = 3
    /\ handled["udp"][1].ev.type = "timer"
    /\ handled["udp"][2].k = 2
    /\ handled["udp"][3].line = 2
    /\ Len(handled["tcp"]) > 0

\* C3: queueing neither loses nor duplicates an event: the events of the
\* lines a listener has queued are, in order, the events handled for it, the
\* events of the batch in Listen's hands and the events in the channel; the
\* channel never holds more than its capacity; and once Listen has returned
\* every event of every line read has been handled exactly once.
C3_NoLossNoDuplication ==
    /\ Len(chan) <= ChanCap
    /\ \A l \in Listeners :
           QueuedEvents(l) = handled[l] \o InHand(l) \o ChanEvents(l, chan)
    /\ epc = "returned" => \A l \in Listeners : handled[l] = SourceEvents(l)

\* C3's case: the channel is full, a listener waits with a line to queue,
\* and events on both sides of the channel are accounted for.
C3_Witness ==
    /\ Len(chan) = ChanCap
    /\ \E l \in Listeners : lpc[l] = "queue"
    /\ \E l \in Listeners : Len(handled[l]) > 0
    /\ epc = "handling"
    /\ Len(cur.events) > 1

\* C4, the step: an event that reaches the registry with a label key-set
\* other than the one accepted for its name is counted as a conflict of its
\* type and not as an event, and the registry is unchanged.
C4_ConflictStep ==
    (/\ HandleStep
     /\ last'.kind # "none"
     /\ last'.name \in DOMAIN accepted
     /\ LabelKeys(last'.labels) \notin accepted[last'.name])
    => /\ reg' = reg
       /\ last'.update = "none"
       /\ stats'[ConflictStatOf(NextEvent.type)]
              = stats[ConflictStatOf(NextEvent.type)] + 1
       /\ stats'[EventStatOf(NextEvent.type)] = stats[EventStatOf(NextEvent.type)]

C5_TickStep ==
    TickStep =>
        /\ \A k \in DOMAIN reg'.slots :
               ~(reg'.slots[k].ttl > 0 /\ now - reg'.slots[k].last > reg'.slots[k].ttl)
        /\ \A k \in DOMAIN reg.slots :
               (reg.slots[k].ttl = 0 \/ now - reg.slots[k].last <= reg.slots[k].ttl)
               => /\ k \in DOMAIN reg'.slots
                  /\ reg'.slots[k] = reg.slots[k]

\* C5: in every state right after an eviction tick at time t no slot with
\* TTL > 0 and t - last activity > TTL is in the registry; a tick removes no
\* slot with TTL = 0 and no slot whose last activity is within its TTL.
C5_TtlEviction ==
    /\ [](last.op = "tick" =>
            \A k \in DOMAIN reg.slots :
                ~(reg.slots[k].ttl > 0 /\ last.t - reg.slots[k].last > reg.slots[k].ttl))
    /\ [][C5_TickStep]_vars

\* C5's case: a tick has just removed a slot and left a slot with TTL = 0
\* and a slot with TTL > 0 whose last activity is within its TTL.
C5_Witness ==
    /\ last.op = "tick"
    /\ last.evicted > 0
    /\ \E k \in DOMAIN reg.slots :
           reg.slots[k].ttl = 0 \/ last.t - reg.slots[k].last <= reg.slots[k].ttl

\* C6, the step: of the counter events that reach the dispatch, one with a
\* value < 0 is counted as illegal_negative_counter and changes nothing in
\* the registry, and one the registry accepts adds exactly its value, which
\* is not negative, to its slot.
C6_CounterStep ==
    (HandleStep /\ NextEvent.type = "counter" /\ ReachesDispatch(NextEvent))
    => IF NextEvent.value[1] < 0
       THEN /\ reg' = reg
            /\ stats'["error_event_stats{illegal_negative_counter}"]
                   = stats["error_event_stats{illegal_negative_counter}"] + 1
            /\ stats'["events{counter}"] = stats["events{counter}"]
       ELSE /\ stats'["error_event_stats{illegal_negative_counter}"]
                   = stats["error_event_stats{illegal_negative_counter}"]
            /\ last'.update = "Add"
                => /\ stats'["events{counter}"] = stats["events{counter}"] + 1
                   /\ << last'.name, last'.labels >> \in DOMAIN reg'.slots
                   /\ SlotValue(reg', << last'.name, last'.labels >>)
                          = RatAdd(SlotValue(reg, << last'.name, last'.labels >>),
                                   NextEvent.value)
            /\ last'.update # "Add" => reg' = reg

C7_KindConflictStep ==
    (/\ HandleStep
     /\ last'.kind # "none"
     /\ << last'.name, last'.labels >> \in DOMAIN reg.slots
     /\ reg.slots[<< last'.name, last'.labels >>].kind # last'.kind)
    => /\ stats'[ConflictStatOf(NextEvent.type)]
              = stats[ConflictStatOf(NextEvent.type)] + 1
       /\ stats'[EventStatOf(NextEvent.type)] = stats[EventStatOf(NextEvent.type)]
       /\ reg' = reg
       /\ last'.update = "none"
       /\ epc' = IF cur.k < Len(cur.events) THEN "handling" ELSE "select"

\* C7: a kind conflict increments events_conflict{type}, does not increment
\* events{type}, changes neither kind nor value of the existing slot and
\* does not raise.
C7_KindConflict == [][C7_KindConflictStep]_vars

\* C7's case: after a:2|c:1|c:5|g the counter a holds 3 and the gauge event
\* has just been counted as one gauge conflict.
C7_Witness ==
    /\ last.op = "handle"
    /\ last.event.type = "gauge"
    /\ last.kind = "gauge"
    /\ last.update = "none"
    /\ stats["events_conflict{gauge}"] = 1
    /\ << << "a" >>, {} >> \in DOMAIN reg.slots
    /\ reg.slots[<< << "a" >>, {} >>].kind = "counter"
    /\ reg.slots[<< << "a" >>, {} >>].value = RatInt(3)

\* The step takes the tick out of the ticker: the tick case of the select,
\* which calls removeStaleMetrics.
EvictionStep == tickPending /\ ~tickPending'

\* C14, the step: removeStaleMetrics runs only from the select, with no
\* batch in Listen's hands, and touches no event; a call of handleEvent
\* takes no tick; while a batch is being handled no slot leaves the
\* registry; and the registry changes only in a tick or in a call of
\* handleEvent.
C14_ExclusiveStep ==
    /\ EvictionStep
        => /\ epc = "select" /\ epc' = "select"
           /\ handled' = handled /\ cur' = cur /\ chan' = chan
    /\ HandleStep => tickPending' = tickPending
    /\ epc = "handling" => DOMAIN reg.slots \subseteq DOMAIN reg'.slots
    /\ reg' # reg => EvictionStep \/ HandleStep

\* C14: eviction and event handling never interleave in Exporter.Listen:
\* removeStaleMetrics never runs between two events of a batch, no
\* handleEvent starts during it, and nothing else writes the registry.
C14_EvictionExcludesHandling == [][C14_ExclusiveStep]_vars

\* C14's case: a tick has just evicted a slot while a batch waits in the
\* channel, after events were handled.
C14_Witness ==
    /\ last.op = "tick"
    /\ last.evicted > 0
    /\ epc = "select"
    /\ Len(chan) > 0
    /\ Len(chan[1].events) > 1
    /\ \E l \in Listeners : Len(handled[l]) > 0

\* A slot of the registry has exceeded its TTL.
StaleSlotExists ==
    \E k \in DOMAIN reg.slots :
        reg.slots[k].ttl > 0 /\ now - reg.slots[k].last > reg.slots[k].ttl

CurLine == PacketLines(cur.src, rcvd[cur.src][cur.pk])[cur.line]

\* The text of the sample that the k-th event of a line came from, given
\* the samples lineToEvents parsed with the events of each.
RECURSIVE SampleOfEvent(_, _)
SampleOfEvent(perSample, k) ==
    IF k <= Len(perSample[1].events) THEN perSample[1].sample
    ELSE SampleOfEvent(Tail(perSample), k - Len(perSample[1].events))

\* The value string of the sample the next event came from starts with "+"
\* or "-".
NextValueSigned ==
    SampleOfEvent(lineToEvents(CurLine).perSample, cur.k)[1] \in {"+", "-"}

\* C18, the step: a gauge event is relative exactly when the value string
\* of its sample starts with "+" or "-"; an accepted relative event adds its
\* signed value to the slot and an accepted non-relative event sets the
\* slot to its value; so a negative gauge sample is never applied as a set.
C18_GaugeStep ==
    (HandleStep /\ NextEvent.type = "gauge")
    => /\ NextEvent.relative = NextValueSigned
       /\ NextEvent.value[1] < 0 => last'.update \in {"Add", "none"}
       /\ last'.update # "none"
           => /\ last'.update = IF NextValueSigned THEN "Add" ELSE "Set"
              /\ SlotValue(reg', << last'.name, last'.labels >>)
                     = IF NextValueSigned
                       THEN RatAdd(SlotValue(reg, << last'.name, last'.labels >>),
                                   NextEvent.value)
                       ELSE NextEvent.value
              /\ \A k \in DOMAIN reg.slots :
                     k # << last'.name, last'.labels >>
                         => k \in DOMAIN reg'.slots
                            /\ reg'.slots[k].value = reg.slots[k].value

\* C18: the value of a gauge slot is the fold of the accepted gauge events
\* on it, a non-relative event setting the value and a relative event
\* adding its signed value; a gauge sample is relative exactly when its
\* value string starts with "+" or "-"; and only calls of handleEvent for
\* gauge events change the value of a gauge slot.
C18_GaugeFold ==
    /\ [][C18_GaugeStep]_vars
    /\ [][\A k \in DOMAIN reg.slots :
             (reg.slots[k].kind = "gauge" /\ k \in DOMAIN reg'.slots
              /\ reg'.slots[k].value # reg.slots[k].value)
                 => HandleStep /\ NextEvent.type = "gauge"]_vars

\* C18's case: after a:5|g and a:-1|g the gauge a holds 4, the second sample
\* having been applied as an addition.
C18_Witness ==
    /\ last.op = "handle"
    /\ last.event.type = "gauge"
    /\ last.event.relative
    /\ last.event.value = << -1, 1 >>
    /\ last.update = "Add"
    /\ << << "a" >>, {} >> \in DOMAIN reg.slots
    /\ reg.slots[<< << "a" >>, {} >>].kind = "gauge"
    /\ reg.slots[<< << "a" >>, {} >>].value = << 4, 1 >>

\* The labels base overridden by the labels over.
OverrideLabels(base, over) ==
    {p \in base : ~\E q \in over : q[1] = p[1]} \cup over

\* C19, the step: the label set handleEvent records an event under is the
\* labels parsed for the event's line overridden by the labels the mapper
\* extracted for that event, whatever events were handled before it.
C19_OwnLabelsStep ==
    (HandleStep /\ ReachesDispatch(NextEvent))
    => last'.labels
           = OverrideLabels(lineToEvents(CurLine).labels,
                            GetMapping(NextEvent.metricName, NextEvent.type).labels)

\* C19: the label set under which handleEvent records an event depends only
\* on that event: handling one event never changes the labels of another,
\* a later event of the same line included.
C19_LabelsDependOnlyOnEvent == [][C19_OwnLabelsStep]_vars

\* The terminal outcome counters of handleEvent.
TerminalStats ==
    {"events_actions{drop}", "error_event_stats{empty_metric_name}",
     "error_event_stats{illegal_negative_counter}",
     "events_conflict{counter}", "events_conflict{gauge}",
     "events_conflict{timer}",
     "events{counter}", "events{gauge}", "events{timer}"}

\* The step increments events{type} for the type of the event it handles.
CountsAsEvent ==
    stats'[EventStatOf(NextEvent.type)] = stats[EventStatOf(NextEvent.type)] + 1

\* The step leaves every accumulator of the registry as it was and creates
\* none.
AccumulatorsUntouched ==
    /\ DOMAIN reg'.slots = DOMAIN reg.slots
    /\ \A key \in DOMAIN reg.slots :
          /\ reg'.slots[key].value = reg.slots[key].value
          /\ reg'.slots[key].count = reg.slots[key].count

\* C20, the step: a call of handleEvent that does not end the process
\* increments exactly one terminal outcome counter, by one, and calls Add,
\* Set or Observe on an accumulator exactly when that counter is
\* events{type}.
C20_OneOutcomeStep ==
    (HandleStep /\ epc' # "exited")
    => /\ \A c \in TerminalStats : stats'[c] \in {stats[c], stats[c] + 1}
       /\ Cardinality({c \in TerminalStats : stats'[c] = stats[c] + 1}) = 1
       /\ (last'.update \in {"Add", "Set", "Observe"}) <=> CountsAsEvent
       /\ last'.update \notin {"Add", "Set", "Observe"}
            => (last'.update = "none" /\ AccumulatorsUntouched)

\* C20: every event handled without the fatal unknown-timer-kind exit
\* increments exactly one of events_actions{drop},
\* error_event_stats{empty_metric_name},
\* error_event_stats{illegal_negative_counter}, events_conflict{type} and
\* events{type}, exactly once, and an accumulator is updated if and only if
\* the outcome is events{type}.
C20_ExactlyOneOutcome == [][C20_OneOutcomeStep]_vars

\* C20's case: an event has just been dropped, which updated no accumulator,
\* after another event was accepted and counted in events{type}.
C20_Witness ==
    /\ last.op = "handle"
    /\ last.incs = << "events_actions{drop}" >>
    /\ last.update = "none"
    /\ stats["events_actions{drop}"] = 1
    /\ \E type \in {"counter", "gauge", "timer"} : stats[EventStatOf(type)] >= 1

\* The name matches [A-Za-z_][A-Za-z0-9_]*.
IsIdentifier(name) ==
    /\ Len(name) > 0
    /\ name[1] \in Letters \cup {"_"}
    /\ \A i \in 1..Len(name) : name[i] \in Letters \cup Digits \cup {"_"}

\* C12: every metric name handleEvent passes to the registry matches
\* [A-Za-z_][A-Za-z0-9_]*: it is not empty, does not start with a digit and
\* holds only letters, digits and "_".
C12_RegistryNamesAreIdentifiers ==
    (last.op = "handle" /\ last.kind # "none") => IsIdentifier(last.name)

\* The timer type the claim resolves for an event: the mapping's unless it
\* is the default (or there is no mapping), else the defaults'.
ResolvedTimerType(ev) ==
    IF GetMapping(ev.metricName, ev.type).mapping # Nil
       /\ GetMapping(ev.metricName, ev.type).mapping.TimerType # TimerTypeDefault
    THEN GetMapping(ev.metricName, ev.type).mapping.TimerType
    ELSE dflt.TimerType

\* The slot kind asked for a resolved timer type, "none" for a type that
\* ends the process.
TimerKindOf(tt) ==
    IF tt = TimerTypeHistogram THEN "histogram"
    ELSE IF tt \in {TimerTypeSummary, TimerTypeDefault} THEN "summary"
    ELSE "none"

\* C17, the step: a timer event that reaches the dispatch asks for a
\* histogram slot when its resolved type is histogram and for a summary
\* slot when it is summary or the default, and observes value/1000 on the
\* slot it gets; with any other resolved type the process ends and nothing
\* is observed.
C17_TimerStep ==
    (HandleStep /\ NextEvent.type = "timer" /\ ReachesDispatch(NextEvent))
    => IF TimerKindOf(ResolvedTimerType(NextEvent)) = "none"
       THEN /\ epc' = "exited"
            /\ reg' = reg
            /\ last'.update = "none"
       ELSE /\ epc' # "exited"
            /\ last'.kind = TimerKindOf(ResolvedTimerType(NextEvent))
            /\ last'.update \in {"Observe", "none"}
            /\ last'.update = "Observe"
                => /\ last'.amount = RatDiv(NextEvent.value, RatInt(1000))
                   /\ reg'.slots[<< last'.name, last'.labels >>].kind = last'.kind
                   /\ reg'.slots[<< last'.name, last'.labels >>].value
                          = RatAdd(SlotValue(reg, << last'.name, last'.labels >>),
                                   RatDiv(NextEvent.value, RatInt(1000)))
            /\ last'.update = "none" => reg' = reg

\* C17: the output kind of a timer event is the mapping's timer kind if not
\* the default, else the defaults', else summary; value/1000 is observed on
\* a histogram or a summary slot accordingly, and any other resolved kind
\* ends the process with nothing observed.
C17_TimerKindResolution == [][C17_TimerStep]_vars

\* C17's case: under defaults of an unknown timer type, a timer event whose
\* mapping asks for a histogram has been observed as 2/1000 on a histogram
\* slot.
C17_Witness ==
    /\ dflt.TimerType = TimerTypeUnknown
    /\ last.op = "handle"
    /\ last.event.type = "timer"
    /\ last.kind = "histogram"
    /\ last.update = "Observe"
    /\ last.amount = Rat(1, 500)
    /\ epc # "exited"

(***************************************************************************)
(* lineToEvents on its own: the input lines and the call.                  *)
(***************************************************************************)
NameParts ==
    {<< "a" >>, << >>, << "a", ",", "k", "=", "v" >>, << "#", "k", "=", "v" >>,
     << "a", "#", "k", "=", "v", ",", "b" >>, << "a", ".", "b" >>,
     << "xFF" >>, << "1", "a", "xC3", "xA9" >>}

ValueStrs ==
    {<< "1" >>, << "-", "1" >>, << "+", "2" >>, << "0", ".", "5" >>,
     << "z" >>, << >>}

StatTypes ==
    {<< "c" >>, << "g" >>, << "m", "s" >>, << "h" >>, << "s" >>, << "z" >>}

Suffixes ==
    {<< "@", "0", ".", "5" >>, << "@", "z" >>, << "@", "0" >>, << "@", "2" >>,
     << "@", "-", "1" >>, << "#", "k", ":", "v" >>, << "#", "k" >>,
     << "z" >>, << >>}

FirstSamples ==
    {Join(<< v, t >>, "|") : v \in ValueStrs, t \in StatTypes}
    \cup {Join(<< << "1" >>, t, x >>, "|") :
              t \in {<< "c" >>, << "g" >>, << "m", "s" >>, << "s" >>},
              x \in Suffixes}
    \cup {Join(<< << "2" >>, t, x, y >>, "|") :
              t \in {<< "c" >>, << "m", "s" >>},
              x \in {<< "@", "0", ".", "5" >>, << "@", "z" >>},
              y \in {<< "#", "k", ":", "v" >>, << "z" >>, << >>}}
    \cup {<< "1" >>, << >>,
          << "1", "|", "c", "|", "@", "1", "|", "#", "k", ":", "v", "|", "z" >>}

MoreSamples ==
    {<< "1", "|", "c" >>, << "2", "|", "g" >>, << "z", "|", "c" >>,
     << "1", "|", "s" >>, << "1", "|", "c", "|", "@", "z" >>}

\* The lines: the empty line, a name section alone, and a name section, a
\* colon and up to MaxSamples samples joined by colons.
Lines ==
    {<< >>}
    \cup NameParts
    \cup {n \o << ":" >> \o Join(<< s >> \o more, ":") :
              n \in NameParts, s \in FirstSamples,
              more \in UNION {[1..m -> MoreSamples] : m \in 0..(MaxSamples - 1)}}

SysIdle == SysInit(Packets, {[Ttl |-> 0, TimerType |-> TimerTypeDefault]})

ParseInit ==
    /\ SysIdle
    /\ pline \in Lines
    /\ pdone = FALSE
    /\ presult = lineToEvents(<< >>)
    /\ EscIdle
    /\ SockIdle

\* The call lineToEvents(line)
ParseLine ==
    /\ ~pdone
    /\ presult' = lineToEvents(pline)
    /\ pdone' = TRUE
    /\ UNCHANGED pline
    /\ UNCHANGED << escvars, sockvars >>
    /\ UNCHANGED sysvars

ParseNext == ParseLine

ParseSpec == ParseInit /\ [][ParseNext]_vars

(***************************************************************************)
(* Properties of lineToEvents, checked under ParseSpec.                    *)
(***************************************************************************)
\* The elements of the line: the text before the first colon and, when
\* there is a colon, the text after it.
Elements(line) == SplitN2(line, ":")

\* The metric name of the line: its name section up to the inline tag block.
MetricNameOf(line) ==
    parseNameAndTags(Elements(line)[1], [labels |-> {}, c |-> ZeroCounters]).metric

\* The line passes the check of line 374.
WellFormedLine(line) ==
    Len(line) > 0 /\ Len(Elements(line)) = 2 /\ Len(Elements(line)[1]) > 0
    /\ ValidString(line)

\* The labels lineToEvents extracts from the inline name-tag block: none for
\* a line it returns on before parseNameAndTags.
NameLabelsOf(line) ==
    IF WellFormedLine(line)
    THEN parseNameAndTags(Elements(line)[1],
                          [labels |-> {}, c |-> ZeroCounters]).st.labels
    ELSE {}

\* C8: every line that has fewer than two colon-separated parts, or an empty
\* metric name, or is not valid UTF-8 (the empty line and a line whose name
\* section is only a tag block included) is rejected: no event is returned
\* and sample_errors{malformed_line} is incremented.
C8_MalformedLineRejected ==
    pdone =>
        ((Len(Elements(pline)) < 2 \/ MetricNameOf(pline) = << >>
          \/ ~ValidString(pline))
         => presult.events = << >> /\ presult.c["malformed_line"] = 1)

\* C9: a sample for which lineToEvents counts a parse error
\* (malformed_component, malformed_value, invalid_sample_factor or
\* illegal_event) contributes no event, and every sample of the line is
\* parsed.
C9_CountedSampleEmitsNothing ==
    pdone =>
        \A i \in 1..Len(presult.perSample) :
            (\E r \in SampleErrorReasons : presult.perSample[i].counted[r] > 0)
                => presult.perSample[i].events = << >>

\* C10: a line with a label from its inline name-tag block whose text after
\* the first colon contains "|#" returns no event and counts
\* mixed_tagging_styles once; and whenever that text contains "|#" it is one
\* sample, never split at ":".
C10_MixedStylesAndSingleSample ==
    (pdone /\ Len(Elements(pline)) = 2 /\ ContainsPipeHash(Elements(pline)[2]))
        => /\ NameLabelsOf(pline) # {}
                => /\ presult.events = << >>
                   /\ presult.c["mixed_tagging_styles"] = 1
                   /\ presult.c["samples_received"] = 0
           /\ Len(presult.perSample) <= 1
           /\ presult.c["samples_received"] <= 1
           /\ \A i \in 1..Len(presult.perSample) :
                  presult.perSample[i].sample = Elements(pline)[2]

\* C10's case: lineToEvents has returned on a line that mixes the styles,
\* and on a DogStatsD line with a colon inside its one sample.
C10_Witness ==
    /\ pdone
    /\ NameLabelsOf(pline) # {}
    /\ Len(Elements(pline)) = 2
    /\ ContainsPipeHash(Elements(pline)[2])
    /\ IndexFrom(Elements(pline)[2], ":", 1) > 0
    /\ presult.c["mixed_tagging_styles"] = 1

\* The "|"-separated components of the i-th sample lineToEvents parsed.
SampleParts(i) == Split(presult.perSample[i].sample, "|")

\* The i-th sample has a value that parses and a stat type that has events.
ValidSample(i) ==
    /\ Len(SampleParts(i)) >= 2
    /\ ParseFloat(SampleParts(i)[1]).ok
    /\ SampleParts(i)[2] \in {<< "c" >>, << "g" >>, << "m", "s" >>, << "h" >>, << "d" >>}

\* The i-th sample is a value, a type and a sampling factor that parses.
HasFactor(i) ==
    /\ Len(SampleParts(i)) = 3
    /\ Len(SampleParts(i)[3]) > 0
    /\ SampleParts(i)[3][1] = "@"
    /\ ParseFloat(Tail(SampleParts(i)[3])).ok

\* The factor f of the i-th sample, 0 taken for 1.
FactorOf(i) ==
    IF ParseFloat(Tail(SampleParts(i)[3])).val[1] = 0 THEN << 1, 1 >>
    ELSE ParseFloat(Tail(SampleParts(i)[3])).val

\* floor of the rational x (its denominator is positive).
Floor(x) == x[1] \div x[2]

\* The events of the i-th sample are n events of the type, each with the
\* value v.
EmitsExactly(i, n, type, v) ==
    /\ Len(presult.perSample[i].events) = n
    /\ \A j \in 1..Len(presult.perSample[i].events) :
           /\ presult.perSample[i].events[j].type = type
           /\ presult.perSample[i].events[j].value = v
           /\ presult.perSample[i].events[j] = presult.perSample[i].events[1]

\* What the i-th sample emits when a timer sample with factor f emits
\* timerCount events.
SamplingRule(i, timerCount) ==
    IF SampleParts(i)[2] = << "c" >>
    THEN EmitsExactly(i, 1, "counter",
                      RatDiv(ParseFloat(SampleParts(i)[1]).val, FactorOf(i)))
    ELSE IF SampleParts(i)[2] = << "g" >>
    THEN EmitsExactly(i, 1, "gauge", ParseFloat(SampleParts(i)[1]).val)
    ELSE EmitsExactly(i, timerCount, "timer", ParseFloat(SampleParts(i)[1]).val)

\* A valid sample without a sampling factor (a value, a type and at most two
\* further components, none empty and none starting with "@") emits exactly
\* one event.
NoFactorRule(i) ==
    (/\ ValidSample(i)
     /\ Len(SampleParts(i)) <= 4
     /\ \A j \in 3..Len(SampleParts(i)) :
            Len(SampleParts(i)[j]) > 0 /\ SampleParts(i)[j][1] # "@")
        => Len(presult.perSample[i].events) = 1

\* C16 as stated: a sample with a sampling factor @f (0 taken for 1) emits
\* exactly floor(1/f) identical timer events for ms, h and d, one counter
\* event of value/f for c and one gauge event of the value for g; without a
\* factor a valid sample emits exactly one event.
C16_SamplingAsStated ==
    pdone =>
        \A i \in 1..Len(presult.perSample) :
            /\ (ValidSample(i) /\ HasFactor(i))
                   => SamplingRule(i, Floor(RatDiv(<< 1, 1 >>, FactorOf(i))))
            /\ NoFactorRule(i)

\* C16, amended: as stated for f >= 0; a timer sample with a factor f < 0
\* emits no event.
C16_SamplingNonNegativeFactor ==
    pdone =>
        \A i \in 1..Len(presult.perSample) :
            /\ (ValidSample(i) /\ HasFactor(i))
                   => SamplingRule(i, IF FactorOf(i)[1] > 0
                                      THEN Floor(RatDiv(<< 1, 1 >>, FactorOf(i)))
                                      ELSE 0)
            /\ NoFactorRule(i)

\* C16's case: the timer sample 1|ms|@0.5 has been parsed into two events.
C16_Witness ==
    /\ pdone
    /\ pline = << "a", ":", "1", "|", "m", "s", "|", "@", "0", ".", "5" >>
    /\ Len(presult.perSample) = 1
    /\ HasFactor(1)
    /\ Len(presult.events) = 2

(***************************************************************************)
(* escapeMetricName on its own: the input names and the calls.             *)
(***************************************************************************)
\* The bytes of the names: a letter, a digit, the underscore, an invalid
\* ASCII character, the two bytes of a multibyte rune and a byte that is
\* never valid UTF-8.
NameBytes == {"a", "1", "_", ".", "xC3", "xA9", "xFF"}

Names == UNION {[1..n -> NameBytes] : n \in 0..MaxNameLen}

EscInit ==
    /\ SysIdle
    /\ pline = << >>
    /\ pdone = FALSE
    /\ presult = lineToEvents(<< >>)
    /\ ename \in Names
    /\ eout = << >>
    /\ SockIdle

\* The call escapeMetricName(n), n the name at first and then the result of
\* the call before.
EscapeCall ==
    /\ Len(eout) < 2
    /\ eout' = Append(eout, escapeMetricName(IF Len(eout) = 0 THEN ename
                                              ELSE eout[Len(eout)]))
    /\ UNCHANGED << ename, parsevars, sockvars >>
    /\ UNCHANGED sysvars

EscNext == EscapeCall

EscSpec == EscInit /\ [][EscNext]_vars

(***************************************************************************)
(* Properties of escapeMetricName, checked under EscSpec.                  *)
(***************************************************************************)
\* C11: escapeMetricName is idempotent: for every name that is a sequence
\* of valid characters, invalid ASCII characters, multibyte runes and
\* leading digits (every well-formed UTF-8 string of the model's bytes),
\* escaping the escaped name returns the escaped name.
C11_EscapeIdempotent ==
    (Len(eout) = 2 /\ ValidString(ename)) => eout[2] = eout[1]

\* C11's case: a name with a leading digit, an invalid ASCII character and
\* a multibyte rune has been escaped twice, the first call having changed
\* it.
C11_Witness ==
    /\ Len(eout) = 2
    /\ ename = << "1", ".", "xC3", "xA9" >>
    /\ eout[1] = << "_", "1", "_", "_" >>
    /\ eout[2] = eout[1]

(***************************************************************************)
(* The sockets on their own: the read and accept loops of the three        *)
(* listeners and what each does with an error.                             *)
(***************************************************************************)
\* The errors a read or an accept returns: the socket was closed ("use of
\* closed network connection"), the stream ended (io.EOF), anything else.
ErrClosed == "closed"

ErrEOF == "EOF"

ErrOther == "other"

SockInit ==
    /\ SysIdle
    /\ pline = << >>
    /\ pdone = FALSE
    /\ presult = lineToEvents(<< >>)
    /\ EscIdle
    /\ SockIdle

\* A read or an accept returned data: the loop goes on.
SockRead(l) ==
    /\ proc = "running"
    /\ sock[l] = "listening"
    /\ reads < MaxReads
    /\ reads' = reads + 1
    /\ ioerr' = NoError
    /\ UNCHANGED << sock, conns, proc >>

\* What a listener loop does with the error err: "return", "exit" (os.Exit)
\* or, for the connection of handleConn, "close" (break, and the deferred
\* c.Close()).
OnUDPReadError(err) == "return"

OnUnixgramReadError(err) == IF err = ErrClosed THEN "return" ELSE "exit"

OnAcceptError(err) == IF err = ErrClosed THEN "return" ELSE "exit"

OnConnReadError(err) == "close"

\* The outcome on a listener loop or on the process.
LoopOutcome(l, outcome, op, err) ==
    /\ sock' = IF outcome = "return" THEN [sock EXCEPT ![l] = "returned"] ELSE sock
    /\ proc' = IF outcome = "exit" THEN "exited" ELSE proc
    /\ ioerr' = [op |-> op, on |-> l, err |-> err]
    /\ UNCHANGED << conns, reads >>

\* StatsDUDPListener.Listen: ReadFromUDP returns an error.
UDPReadError ==
    /\ proc = "running"
    /\ sock["udp"] = "listening"
    /\ \E err \in {ErrClosed, ErrOther} :
          LoopOutcome("udp", OnUDPReadError(err), "read", err)
    /\ UNCHANGED << sysvars, parsevars, escvars >>

\* StatsDUnixgramListener.Listen: ReadFromUnix returns an error.
UnixgramReadError ==
    /\ proc = "running"
    /\ sock["unixgram"] = "listening"
    /\ \E err \in {ErrClosed, ErrOther} :
          LoopOutcome("unixgram", OnUnixgramReadError(err), "read", err)
    /\ UNCHANGED << sysvars, parsevars, escvars >>

\* StatsDTCPListener.Listen: AcceptTCP returns an error.
TCPAcceptError ==
    /\ proc = "running"
    /\ sock["tcp"] = "listening"
    /\ \E err \in {ErrClosed, ErrOther} :
          LoopOutcome("tcp", OnAcceptError(err), "accept", err)
    /\ UNCHANGED << sysvars, parsevars, escvars >>

\* StatsDTCPListener.Listen: AcceptTCP returns a connection and handleConn
\* starts on it.
TCPAccept ==
    /\ proc = "running"
    /\ sock["tcp"] = "listening"
    /\ Len(conns) < MaxConns
    /\ conns' = Append(conns, "open")
    /\ ioerr' = NoError
    /\ UNCHANGED << sock, reads, proc >>
    /\ UNCHANGED << sysvars, parsevars, escvars >>

\* handleConn: ReadLine returns a line.
ConnRead(c) ==
    /\ proc = "running"
    /\ conns[c] = "open"
    /\ reads < MaxReads
    /\ reads' = reads + 1
    /\ ioerr' = NoError
    /\ UNCHANGED << sock, conns, proc >>
    /\ UNCHANGED << sysvars, parsevars, escvars >>

\* handleConn: ReadLine returns an error, or a line too long: the loop ends
\* and the connection is closed.
ConnReadError(c) ==
    /\ proc = "running"
    /\ conns[c] = "open"
    /\ \E err \in {ErrEOF, ErrClosed, ErrOther} :
          /\ conns' = IF OnConnReadError(err) = "close"
                      THEN [conns EXCEPT ![c] = "closed"] ELSE conns
          /\ proc' = IF OnConnReadError(err) = "exit" THEN "exited" ELSE proc
          /\ ioerr' = [op |-> "read", on |-> "conn", err |-> err]
    /\ UNCHANGED << sock, reads >>
    /\ UNCHANGED << sysvars, parsevars, escvars >>

\* ReadFromUDP / ReadFromUnix returns a datagram.
DatagramRead(l) ==
    /\ l \in {"udp", "unixgram"}
    /\ SockRead(l)
    /\ UNCHANGED << sysvars, parsevars, escvars >>

SockNext ==
    \/ \E l \in {"udp", "unixgram"} : DatagramRead(l)
    \/ UDPReadError
    \/ UnixgramReadError
    \/ TCPAccept
    \/ TCPAcceptError
    \/ \E c \in 1..MaxConns : c <= Len(conns) /\ ConnRead(c)
    \/ \E c \in 1..MaxConns : c <= Len(conns) /\ ConnReadError(c)

SockSpec == SockInit /\ [][SockNext]_vars

(***************************************************************************)
(* Properties of the sockets, checked under SockSpec.                      *)
(***************************************************************************)
\* C13: a socket read error other than "use of closed network connection"
\* never ends the process, in the UDP listener, in a TCP connection or in
\* the unix-datagram listener; an accept error not caused by the closing of
\* the socket does, and a closed-socket error makes the listener return.
C13_ReadErrorsNotFatal ==
    /\ (ioerr.op = "read" /\ ioerr.err # ErrClosed) => proc = "running"
    /\ (ioerr.op = "accept" /\ ioerr.err # ErrClosed) => proc = "exited"
    /\ (ioerr.err = ErrClosed /\ ioerr.on \in SocketListeners)
           => proc = "running" /\ sock[ioerr.on] = "returned"

====
